---- MODULE Spec2Model ----
(***************************************************************************)
(* Model of the Go gateway of shopping-cart-backend (api-service/main.go): *)
(* the three HTTP handlers authHandler, productsHandler and orderHandler,  *)
(* the process environment they read, and the upstream products service as *)
(* seen through http.Client.  A handler that calls the upstream blocks in   *)
(* client.Get / client.Do; the model splits such a handler at that call.    *)
(***************************************************************************)
EXTENDS Integers, Sequences, FiniteSets, TLC

\* Number of handler goroutines that may be blocked in an upstream call at once.
NumReq == 2

StatusOK == 200
StatusBadRequest == 400
StatusMethodNotAllowed == 405
StatusInternalServerError == 500
StatusBadGateway == 502

-----------------------------------------------------------------------------
(* JSON documents and plain-text bodies.  Every document is a record of the *)
(* same shape: t is the kind, s a string payload, n an integer payload and  *)
(* a the children (array elements, object members, a member's value).       *)
(* Numbers are integers (prices are in cents).                              *)

JVal(t, s, n, a) == [t |-> t, s |-> s, n |-> n, a |-> a]
JInvalid == JVal("invalid", "", 0, <<>>)      \* text that is not JSON
JNull == JVal("null", "", 0, <<>>)
JStr(x) == JVal("string", x, 0, <<>>)
JNum(i) == JVal("number", "", i, <<>>)
JBool(b) == JVal("bool", "", IF b THEN 1 ELSE 0, <<>>)
JArr(elems) == JVal("array", "", 0, elems)
JMember(k, v) == JVal("member", k, 0, <<v>>)
JObj(members) == JVal("object", "", 0, members)
\* A line of plain text, and fmt.Sprintf of a format ending in %d.
Text(msg) == JVal("text", msg, 0, <<>>)
Sprintf(format, d) == JVal("text", format, d, <<>>)

HasMember(obj, k) == \E i \in DOMAIN obj.a : obj.a[i].s = k
\* encoding/json keeps the last of several members with one key.
GetMember(obj, k) ==
    LET i == CHOOSE i \in DOMAIN obj.a :
                 obj.a[i].s = k /\ \A j \in DOMAIN obj.a : j > i => obj.a[j].s # k
    IN  obj.a[i].a[1]

\* A field of a struct decoded from object obj: a missing member or a null
\* leaves the zero value, a member of another JSON type is an
\* UnmarshalTypeError (the zero value stays and Decode returns the error).
StringField(obj, k) ==
    IF ~HasMember(obj, k) \/ GetMember(obj, k).t = "null"
    THEN [err |-> FALSE, val |-> ""]
    ELSE IF GetMember(obj, k).t = "string"
    THEN [err |-> FALSE, val |-> GetMember(obj, k).s]
    ELSE [err |-> TRUE, val |-> ""]

NumberField(obj, k) ==
    IF ~HasMember(obj, k) \/ GetMember(obj, k).t = "null"
    THEN [err |-> FALSE, val |-> 0]
    ELSE IF GetMember(obj, k).t = "number"
    THEN [err |-> FALSE, val |-> GetMember(obj, k).n]
    ELSE [err |-> TRUE, val |-> 0]

BoolField(obj, k) ==
    IF ~HasMember(obj, k) \/ GetMember(obj, k).t = "null"
    THEN [err |-> FALSE, val |-> FALSE]
    ELSE IF GetMember(obj, k).t = "bool"
    THEN [err |-> FALSE, val |-> GetMember(obj, k).n = 1]
    ELSE [err |-> TRUE, val |-> FALSE]

\* A []string field: null or missing leaves the nil slice.
StringsField(obj, k) ==
    IF ~HasMember(obj, k) \/ GetMember(obj, k).t = "null"
    THEN [err |-> FALSE, val |-> <<>>]
    ELSE IF GetMember(obj, k).t = "array"
    THEN LET e == GetMember(obj, k).a
         IN  [err |-> \E i \in DOMAIN e : e[i].t \notin {"string", "null"},
              val |-> [i \in DOMAIN e |-> IF e[i].t = "string" THEN e[i].s ELSE ""]]
    ELSE [err |-> TRUE, val |-> <<>>]

-----------------------------------------------------------------------------
(* The wire types of main.go and their decoding and encoding.               *)

ZeroLoginRequest == [Passkey |-> ""]

\* Mutant: the error of Decode is dropped.
DecodeLoginRequestLenient(body) ==
    IF body.t # "object" THEN [err |-> FALSE, val |-> ZeroLoginRequest]
    ELSE [err |-> FALSE, val |-> [Passkey |-> StringField(body, "passkey").val]]

\* json.NewDecoder(r.Body).Decode(&req) for a LoginRequest.
DecodeLoginRequest(body) ==
    IF body.t = "null" THEN [err |-> FALSE, val |-> ZeroLoginRequest]
    ELSE IF body.t # "object" THEN [err |-> TRUE, val |-> ZeroLoginRequest]
    ELSE LET p == StringField(body, "passkey")
         IN  [err |-> p.err, val |-> [Passkey |-> p.val]]

\* json.NewEncoder(w).Encode(resp) for a LoginResponse (message is omitempty).
EncodeLoginResponse(r) ==
    JObj(<<JMember("success", JBool(r.Success))>>
         \o (IF r.Message = "" THEN <<>> ELSE <<JMember("message", JStr(r.Message))>>))

ZeroProduct ==
    [Id |-> "", Name |-> "", Price |-> 0, ImageUrl |-> "", Description |-> "", Stock |-> 0]

DecodeProduct(v) ==
    IF v.t = "null" THEN [err |-> FALSE, val |-> ZeroProduct]
    ELSE IF v.t # "object" THEN [err |-> TRUE, val |-> ZeroProduct]
    ELSE LET id == StringField(v, "id")
             nm == StringField(v, "name")
             pr == NumberField(v, "price")
             im == StringField(v, "imageUrl")
             de == StringField(v, "description")
             st == NumberField(v, "stock")
         IN  [err |-> id.err \/ nm.err \/ pr.err \/ im.err \/ de.err \/ st.err,
              val |-> [Id |-> id.val, Name |-> nm.val, Price |-> pr.val,
                       ImageUrl |-> im.val, Description |-> de.val, Stock |-> st.val]]

\* Decode(&products) for a []Product: null leaves the nil slice.
DecodeProducts(body) ==
    IF body.t = "null" THEN [err |-> FALSE, val |-> [isNil |-> TRUE, elems |-> <<>>]]
    ELSE IF body.t # "array" THEN [err |-> TRUE, val |-> [isNil |-> TRUE, elems |-> <<>>]]
    ELSE [err |-> \E i \in DOMAIN body.a : DecodeProduct(body.a[i]).err,
          val |-> [isNil |-> FALSE,
                   elems |-> [i \in DOMAIN body.a |-> DecodeProduct(body.a[i]).val]]]

EncodeProduct(p) ==
    JObj(<<JMember("id", JStr(p.Id)), JMember("name", JStr(p.Name)),
           JMember("price", JNum(p.Price)), JMember("imageUrl", JStr(p.ImageUrl)),
           JMember("description", JStr(p.Description)), JMember("stock", JNum(p.Stock))>>)

\* Mutant: the products are written last to first.
EncodeProductsReversed(ps) ==
    IF ps.isNil THEN JNull
    ELSE JArr([i \in DOMAIN ps.elems |->
                 EncodeProduct(ps.elems[Len(ps.elems) + 1 - i])])

\* Encode(products): a nil slice is written as null.
EncodeProducts(ps) ==
    IF ps.isNil THEN JNull
    ELSE JArr([i \in DOMAIN ps.elems |-> EncodeProduct(ps.elems[i])])

ZeroOrderItemRequest == [Id |-> "", Name |-> "", Quantity |-> 0, Price |-> 0]

DecodeOrderItemRequest(v) ==
    IF v.t = "null" THEN [err |-> FALSE, val |-> ZeroOrderItemRequest]
    ELSE IF v.t # "object" THEN [err |-> TRUE, val |-> ZeroOrderItemRequest]
    ELSE LET id == StringField(v, "id")
             nm == StringField(v, "name")
             qt == NumberField(v, "quantity")
             pr == NumberField(v, "price")
         IN  [err |-> id.err \/ nm.err \/ qt.err \/ pr.err,
              val |-> [Id |-> id.val, Name |-> nm.val, Quantity |-> qt.val,
                       Price |-> pr.val]]

ZeroPlaceOrderRequest ==
    [Items |-> [isNil |-> TRUE, elems |-> <<>>], TotalAmount |-> 0,
     DeliveryAddress |-> "", OrderDate |-> ""]

\* Decode(&orderRequest) for a PlaceOrderRequest.
DecodePlaceOrderRequest(body) ==
    IF body.t = "null" THEN [err |-> FALSE, val |-> ZeroPlaceOrderRequest]
    ELSE IF body.t # "object" THEN [err |-> TRUE, val |-> ZeroPlaceOrderRequest]
    ELSE LET hasItems == HasMember(body, "items") /\ GetMember(body, "items").t # "null"
             items == IF hasItems THEN GetMember(body, "items") ELSE JNull
             itemsOK == items.t \in {"null", "array"}
             elems == IF items.t = "array" THEN items.a ELSE <<>>
             ta == NumberField(body, "totalAmount")
             da == StringField(body, "deliveryAddress")
             od == StringField(body, "orderDate")
         IN  [err |-> \/ ~itemsOK
                      \/ \E i \in DOMAIN elems : DecodeOrderItemRequest(elems[i]).err
                      \/ ta.err \/ da.err \/ od.err,
              val |-> [Items |-> [isNil |-> items.t # "array",
                                  elems |-> [i \in DOMAIN elems |->
                                               DecodeOrderItemRequest(elems[i]).val]],
                       TotalAmount |-> ta.val, DeliveryAddress |-> da.val,
                       OrderDate |-> od.val]]

EncodeOrderItemRequest(it) ==
    JObj(<<JMember("id", JStr(it.Id)), JMember("name", JStr(it.Name)),
           JMember("quantity", JNum(it.Quantity)), JMember("price", JNum(it.Price))>>)

\* json.Marshal(orderRequest).
EncodePlaceOrderRequest(o) ==
    JObj(<<JMember("items",
                   IF o.Items.isNil THEN JNull
                   ELSE JArr([i \in DOMAIN o.Items.elems |->
                                EncodeOrderItemRequest(o.Items.elems[i])])),
           JMember("totalAmount", JNum(o.TotalAmount)),
           JMember("deliveryAddress", JStr(o.DeliveryAddress)),
           JMember("orderDate", JStr(o.OrderDate))>>)

ZeroPlaceOrderResponse ==
    [Success |-> FALSE, Message |-> "", OrderId |-> "", OutOfStockItems |-> <<>>]

\* Decode(&orderResponse) for a PlaceOrderResponse.
DecodePlaceOrderResponse(body) ==
    IF body.t = "null" THEN [err |-> FALSE, val |-> ZeroPlaceOrderResponse]
    ELSE IF body.t # "object" THEN [err |-> TRUE, val |-> ZeroPlaceOrderResponse]
    ELSE LET su == BoolField(body, "success")
             me == StringField(body, "message")
             oi == StringField(body, "orderId")
             os == StringsField(body, "outOfStockItems")
         IN  [err |-> su.err \/ me.err \/ oi.err \/ os.err,
              val |-> [Success |-> su.val, Message |-> me.val, OrderId |-> oi.val,
                       OutOfStockItems |-> os.val]]

\* Encode(orderResponse): message, orderId and outOfStockItems are omitempty.
EncodePlaceOrderResponse(r) ==
    JObj(<<JMember("success", JBool(r.Success))>>
         \o (IF r.Message = "" THEN <<>> ELSE <<JMember("message", JStr(r.Message))>>)
         \o (IF r.OrderId = "" THEN <<>> ELSE <<JMember("orderId", JStr(r.OrderId))>>)
         \o (IF r.OutOfStockItems = <<>> THEN <<>>
             ELSE <<JMember("outOfStockItems",
                            JArr([i \in DOMAIN r.OutOfStockItems |->
                                    JStr(r.OutOfStockItems[i])]))>>))

-----------------------------------------------------------------------------
(* http.ResponseWriter: the status line is written once, by the first       *)
(* WriteHeader or implicitly (200) by the first Write; writes counts the     *)
(* WriteHeader calls, explicit and implicit; body is the chunks written.     *)

NewResponse == [status |-> 0, headers |-> {}, body |-> <<>>, writes |-> 0]

SetHeader(w, k, v) ==
    [w EXCEPT !.headers = {h \in w.headers : h[1] # k} \cup {<<k, v>>}]

WriteHeader(w, code) ==
    IF w.writes = 0 THEN [w EXCEPT !.status = code, !.writes = 1]
    ELSE [w EXCEPT !.writes = w.writes + 1]

Write(w, chunk) ==
    LET w1 == IF w.writes = 0 THEN WriteHeader(w, StatusOK) ELSE w
    IN  [w1 EXCEPT !.body = Append(w1.body, chunk)]

\* http.Error(w, msg, code), msg given as the text chunk it prints.
HttpError(w, msg, code) ==
    Write(WriteHeader(SetHeader(SetHeader(w,
              "Content-Type", "text/plain; charset=utf-8"),
              "X-Content-Type-Options", "nosniff"), code), msg)

\* The three CORS headers every handler sets first.
SetCORS(w, methods) ==
    SetHeader(SetHeader(SetHeader(w,
        "Access-Control-Allow-Origin", "*"),
        "Access-Control-Allow-Methods", methods),
        "Access-Control-Allow-Headers", "Content-Type")

-----------------------------------------------------------------------------
(* The process environment, as os.Getenv sees it ("" is unset or empty).    *)

DefaultPasskey == "12345"
DefaultProductsApiURL == "http://localhost:8080"

EnvKeys == {"AUTH_PASSKEY", "DOTNET_PRODUCTS_API_URL"}
EnvValues(k) ==
    IF k = "AUTH_PASSKEY" THEN {"", "secret"} ELSE {"", "http://products:8080"}

\* The process starts with neither variable set.
StartupEnv == [k \in EnvKeys |-> ""]

\* configuredPasskey of authHandler.
ConfiguredPasskey(e) ==
    IF e["AUTH_PASSKEY"] = "" THEN DefaultPasskey ELSE e["AUTH_PASSKEY"]

\* Mutant: the base URL is resolved once, at process start.
ProductsApiURLAtStartup(e) ==
    IF StartupEnv["DOTNET_PRODUCTS_API_URL"] = "" THEN DefaultProductsApiURL
    ELSE StartupEnv["DOTNET_PRODUCTS_API_URL"]

\* dotnetProductsApiURL of productsHandler and orderHandler.
ProductsApiURL(e) ==
    IF e["DOTNET_PRODUCTS_API_URL"] = "" THEN DefaultProductsApiURL
    ELSE e["DOTNET_PRODUCTS_API_URL"]

\* fmt.Sprintf("%s/all-products", base) and fmt.Sprintf("%s/place-order", base).
TargetURL(base, path) == [base |-> base, path |-> path]
NoURL == TargetURL("", "")

\* Whether http.NewRequest can parse the URL (client.Get builds its request the
\* same way); a base such as "::" has no scheme it can read.
MalformedBases == {"::"}
URLParses(url) == url.base \notin MalformedBases

-----------------------------------------------------------------------------
(* What a handler has done when it returns or blocks in the upstream call:  *)
(* done tells which; w is the response written so far; decoded and compared *)
(* record whether the request body was decoded and a credential compared;   *)
(* cfg is the configured passkey compared against; url and sent are the     *)
(* target and body of the upstream call.                                    *)

Finished(w, decoded, compared, cfg) ==
    [done |-> TRUE, w |-> w, decoded |-> decoded, compared |-> compared,
     cfg |-> cfg, url |-> NoURL, sent |-> JNull]

Calling(w, decoded, url, sent) ==
    [done |-> FALSE, w |-> w, decoded |-> decoded, compared |-> FALSE,
     cfg |-> "", url |-> url, sent |-> sent]

\* Mutant: the comparison is inverted.
CheckPasskeyInverted(passkey, configured) ==
    IF passkey # configured
    THEN [Success |-> TRUE, Message |-> "Authentication successful"]
    ELSE [Success |-> FALSE, Message |-> "Invalid passkey"]

\* The Credential Checker: the comparison of authHandler.
CheckPasskey(passkey, configured) ==
    IF passkey = configured
    THEN [Success |-> TRUE, Message |-> "Authentication successful"]
    ELSE [Success |-> FALSE, Message |-> "Invalid passkey"]

authHandler(method, body, e) ==
    LET w == SetCORS(NewResponse, "POST, OPTIONS")
        req == DecodeLoginRequest(body)
        configuredPasskey == ConfiguredPasskey(e)
        resp == CheckPasskey(req.val.Passkey, configuredPasskey)
    IN  IF method = "OPTIONS"
        THEN Finished(WriteHeader(w, StatusOK), FALSE, FALSE, "")
        ELSE IF method # "POST"
        THEN Finished(HttpError(w, Text("Method not allowed"), StatusMethodNotAllowed),
                      FALSE, FALSE, "")
        ELSE IF req.err
        THEN Finished(HttpError(w, Text("Invalid request body"), StatusBadRequest),
                      TRUE, FALSE, "")
        ELSE Finished(Write(SetHeader(w, "Content-Type", "application/json"),
                            EncodeLoginResponse(resp)),
                      TRUE, TRUE, configuredPasskey)

\* Mutant: the method gate is missing.
productsHandlerAnyMethod(method, body, e) ==
    LET w == SetCORS(NewResponse, "GET, OPTIONS")
        targetURL == TargetURL(ProductsApiURL(e), "/all-products")
    IN  IF method = "OPTIONS"
        THEN Finished(WriteHeader(w, StatusOK), FALSE, FALSE, "")
        ELSE IF ~URLParses(targetURL)
        THEN Finished(HttpError(w, Text("Failed to fetch products from backend service"),
                                StatusBadGateway), FALSE, FALSE, "")
        ELSE Calling(w, FALSE, targetURL, JNull)

\* productsHandler up to client.Get(targetURL).
productsHandler(method, body, e) ==
    LET w == SetCORS(NewResponse, "GET, OPTIONS")
        targetURL == TargetURL(ProductsApiURL(e), "/all-products")
    IN  IF method = "OPTIONS"
        THEN Finished(WriteHeader(w, StatusOK), FALSE, FALSE, "")
        ELSE IF method # "GET"
        THEN Finished(HttpError(w, Text("Method not allowed"), StatusMethodNotAllowed),
                      FALSE, FALSE, "")
        ELSE IF ~URLParses(targetURL)
        THEN Finished(HttpError(w, Text("Failed to fetch products from backend service"),
                                StatusBadGateway), FALSE, FALSE, "")
        ELSE Calling(w, FALSE, targetURL, JNull)

\* Mutant: a non-200 upstream status is relayed as the response status.
productsHandlerResumeRelayStatus(w, up) ==
    LET products == DecodeProducts(up.body)
    IN  IF up.err
        THEN HttpError(w, Text("Failed to fetch products from backend service"),
                       StatusBadGateway)
        ELSE IF up.status # StatusOK
        THEN HttpError(w, Sprintf("Backend service error: %d", up.status), up.status)
        ELSE IF products.err
        THEN HttpError(w, Text("Failed to parse products data from backend"),
                       StatusInternalServerError)
        ELSE Write(SetHeader(w, "Content-Type", "application/json"),
                   EncodeProducts(products.val))

\* Mutant: a body that fails to decode is answered like an upstream failure.
productsHandlerResumeDecodeAsGateway(w, up) ==
    LET products == DecodeProducts(up.body)
    IN  IF up.err
        THEN HttpError(w, Text("Failed to fetch products from backend service"),
                       StatusBadGateway)
        ELSE IF up.status # StatusOK
        THEN HttpError(w, Sprintf("Backend service error: %d", up.status),
                       StatusBadGateway)
        ELSE IF products.err
        THEN HttpError(w, Text("Failed to parse products data from backend"),
                       StatusBadGateway)
        ELSE Write(SetHeader(w, "Content-Type", "application/json"),
                   EncodeProducts(products.val))

\* productsHandler from the return of client.Get: up is the upstream's answer,
\* up.err a transport failure (the timeout included).
productsHandlerResume(w, up) ==
    LET products == DecodeProducts(up.body)
    IN  IF up.err
        THEN HttpError(w, Text("Failed to fetch products from backend service"),
                       StatusBadGateway)
        ELSE IF up.status # StatusOK
        THEN HttpError(w, Sprintf("Backend service error: %d", up.status),
                       StatusBadGateway)
        ELSE IF products.err
        THEN HttpError(w, Text("Failed to parse products data from backend"),
                       StatusInternalServerError)
        ELSE Write(SetHeader(w, "Content-Type", "application/json"),
                   EncodeProducts(products.val))

\* Mutant: the body is decoded before the method is looked at.
orderHandlerDecodeFirst(method, body, e) ==
    LET w == SetCORS(NewResponse, "POST, OPTIONS")
        targetURL == TargetURL(ProductsApiURL(e), "/place-order")
        orderRequest == DecodePlaceOrderRequest(body)
    IN  IF orderRequest.err
        THEN Finished(HttpError(w, Text("Invalid order request body"), StatusBadRequest),
                      TRUE, FALSE, "")
        ELSE IF method = "OPTIONS"
        THEN Finished(WriteHeader(w, StatusOK), TRUE, FALSE, "")
        ELSE IF method # "POST"
        THEN Finished(HttpError(w, Text("Method not allowed"), StatusMethodNotAllowed),
                      TRUE, FALSE, "")
        ELSE IF ~URLParses(targetURL)
        THEN Finished(HttpError(w, Text("Internal server error"),
                                StatusInternalServerError), TRUE, FALSE, "")
        ELSE Calling(w, TRUE, targetURL, EncodePlaceOrderRequest(orderRequest.val))

\* Mutant: the body is forwarded to the upstream without being decoded.
orderHandlerForwardRaw(method, body, e) ==
    LET w == SetCORS(NewResponse, "POST, OPTIONS")
        targetURL == TargetURL(ProductsApiURL(e), "/place-order")
    IN  IF method = "OPTIONS"
        THEN Finished(WriteHeader(w, StatusOK), FALSE, FALSE, "")
        ELSE IF method # "POST"
        THEN Finished(HttpError(w, Text("Method not allowed"), StatusMethodNotAllowed),
                      FALSE, FALSE, "")
        ELSE IF ~URLParses(targetURL)
        THEN Finished(HttpError(w, Text("Internal server error"),
                                StatusInternalServerError), FALSE, FALSE, "")
        ELSE Calling(w, FALSE, targetURL, body)

\* orderHandler up to client.Do(proxyReq).  json.Marshal cannot fail on a
\* PlaceOrderRequest that was decoded from JSON; http.NewRequest fails on a URL
\* it cannot parse.
orderHandler(method, body, e) ==
    LET w == SetCORS(NewResponse, "POST, OPTIONS")
        targetURL == TargetURL(ProductsApiURL(e), "/place-order")
        orderRequest == DecodePlaceOrderRequest(body)
    IN  IF method = "OPTIONS"
        THEN Finished(WriteHeader(w, StatusOK), FALSE, FALSE, "")
        ELSE IF method # "POST"
        THEN Finished(HttpError(w, Text("Method not allowed"), StatusMethodNotAllowed),
                      FALSE, FALSE, "")
        ELSE IF orderRequest.err
        THEN Finished(HttpError(w, Text("Invalid order request body"), StatusBadRequest),
                      TRUE, FALSE, "")
        ELSE IF ~URLParses(targetURL)
        THEN Finished(HttpError(w, Text("Internal server error"),
                                StatusInternalServerError), TRUE, FALSE, "")
        ELSE Calling(w, TRUE, targetURL, EncodePlaceOrderRequest(orderRequest.val))

\* Mutant: the upstream's body is put into the 502 message.
orderHandlerResumeLeak(w, up) ==
    LET orderResponse == DecodePlaceOrderResponse(up.body)
    IN  IF up.err
        THEN HttpError(w, Text("Failed to place order with backend service"),
                       StatusBadGateway)
        ELSE IF up.status # StatusOK
        THEN HttpError(w, JVal("text", "Backend service error: %d", up.status,
                               <<up.body>>), StatusBadGateway)
        ELSE IF orderResponse.err
        THEN HttpError(w, Text("Failed to parse order response from backend"),
                       StatusInternalServerError)
        ELSE Write(WriteHeader(SetHeader(w, "Content-Type", "application/json"),
                               up.status),
                   EncodePlaceOrderResponse(orderResponse.val))

\* orderHandler from the return of client.Do.
orderHandlerResume(w, up) ==
    LET orderResponse == DecodePlaceOrderResponse(up.body)
    IN  IF up.err
        THEN HttpError(w, Text("Failed to place order with backend service"),
                       StatusBadGateway)
        ELSE IF up.status # StatusOK
        THEN HttpError(w, Sprintf("Backend service error: %d", up.status),
                       StatusBadGateway)
        ELSE IF orderResponse.err
        THEN HttpError(w, Text("Failed to parse order response from backend"),
                       StatusInternalServerError)
        ELSE Write(WriteHeader(SetHeader(w, "Content-Type", "application/json"),
                               up.status),
                   EncodePlaceOrderResponse(orderResponse.val))

-----------------------------------------------------------------------------
(* Inputs: what clients send and what the upstream answers.                  *)

Routes == {"/auth", "/products", "/order"}
Methods == {"OPTIONS", "GET", "POST"}

LoginBody(passkey) == JObj(<<JMember("passkey", JStr(passkey))>>)
OrderBody ==
    JObj(<<JMember("items",
             JArr(<<JObj(<<JMember("id", JStr("prod3")), JMember("quantity", JNum(2))>>)>>)),
           JMember("totalAmount", JNum(9998)),
           JMember("deliveryAddress", JStr("1 Main St"))>>)
RequestBodies ==
    {JInvalid, LoginBody("12345"), LoginBody("secret"), OrderBody}

\* A catalog as the products service writes it: the first product carries no
\* stock member, the second an extra one.
CatalogBody ==
    JArr(<<JObj(<<JMember("id", JStr("prod1")), JMember("name", JStr("Wireless Headphones")),
                  JMember("price", JNum(9999))>>),
           JObj(<<JMember("id", JStr("prod3")), JMember("price", JNum(4999)),
                  JMember("stock", JNum(0)), JMember("category", JStr("audio"))>>)>>)
OrderPlacedBody ==
    JObj(<<JMember("success", JBool(TRUE)), JMember("message", JStr("Order placed")),
           JMember("orderId", JStr("ord1")), JMember("outOfStockItems", JNull)>>)
OutOfStockBody ==
    JObj(<<JMember("success", JBool(FALSE)),
           JMember("outOfStockItems", JArr(<<JStr("prod3")>>))>>)
\* What the upstream may send: null, a catalog (which is no PlaceOrderResponse)
\* and two order responses (which are no []Product).
UpstreamBodies == {JNull, CatalogBody, OrderPlacedBody, OutOfStockBody}
UpstreamStatuses == {200, 201, 409, 500}

\* The return of client.Get / client.Do: a response, or err # nil.
UpstreamResponse(status, body) == [err |-> FALSE, status |-> status, body |-> body]
UpstreamError == [err |-> TRUE, status |-> 0, body |-> JNull]
NoUpstream == [err |-> FALSE, status |-> 0, body |-> JNull]

UpstreamReturns ==
    {UpstreamError}
       \cup {UpstreamResponse(st, b) : st \in UpstreamStatuses, b \in UpstreamBodies}

\* The request body of an exchange that went through the upstream: the handler
\* keeps no copy of it across the call.
NotKept == JVal("notkept", "", 0, <<>>)

-----------------------------------------------------------------------------
VARIABLES
    env,        \* the process environment
    inflight,   \* per handler slot: the handler blocked in its upstream call
    last        \* the exchange completed last: request, upstream answer, response

vars == <<env, inflight, last>>

Slots == 1..NumReq

\* What a deployment may start the process with: the values above, or a base
\* URL that was mistyped.
DeployValues(k) ==
    EnvValues(k) \cup (IF k = "DOTNET_PRODUCTS_API_URL" THEN MalformedBases ELSE {})

Envs == {e \in [EnvKeys -> UNION {DeployValues(k) : k \in EnvKeys}] :
            \A k \in EnvKeys : e[k] \in DeployValues(k)}

\* The handler the mux of main routes a path to.
Handle(route, method, body, e) ==
    IF route = "/auth" THEN authHandler(method, body, e)
    ELSE IF route = "/products" THEN productsHandler(method, body, e)
    ELSE orderHandler(method, body, e)

\* Handle, tabulated over the requests and environments of the model.
Handled ==
    [route \in Routes, method \in Methods, body \in RequestBodies, e \in Envs |->
        Handle(route, method, body, e)]

\* A handler blocked in its upstream call, and a free slot.  The body sent is
\* with the upstream; the rest of the handler does not read it.
Blocked(route, method, h) ==
    [route |-> route, method |-> method, w |-> h.w, decoded |-> h.decoded,
     url |-> h.url]
Idle == [route |-> "", method |-> "", w |-> NewResponse, decoded |-> FALSE,
         url |-> NoURL]
BlockedHandlers ==
    {Blocked(x[1], x[2], Handled[x]) : x \in {y \in DOMAIN Handled : ~Handled[y].done}}

\* The rest of the handler blocked as c, given the return of its call.
Resume(c, up) ==
    IF c.route = "/products" THEN productsHandlerResume(c.w, up)
    ELSE orderHandlerResume(c.w, up)

Resumed == [c \in BlockedHandlers, up \in UpstreamReturns |-> Resume(c, up)]

\* The exchange a handler that returned without an upstream call has completed.
Immediate(route, method, body, h) ==
    [route |-> route, method |-> method, body |-> body, w |-> h.w,
     decoded |-> h.decoded, compared |-> h.compared, cfg |-> h.cfg, calls |-> 0,
     up |-> NoUpstream]

\* The exchange completed by the handler blocked as c when its call returns up.
Proxied(c, up) ==
    [route |-> c.route, method |-> c.method, body |-> NotKept, w |-> Resumed[c, up],
     decoded |-> c.decoded, compared |-> FALSE, cfg |-> "", calls |-> 1, up |-> up]

NoExchange ==
    [route |-> "", method |-> "", body |-> JNull, w |-> NewResponse,
     decoded |-> FALSE, compared |-> FALSE, cfg |-> "", calls |-> 0,
     up |-> NoUpstream]

Init ==
    /\ env = StartupEnv
    /\ inflight = [s \in Slots |-> Idle]
    /\ last = NoExchange

\* The process started under any deployment's environment.
InitDeployed ==
    /\ env \in Envs
    /\ inflight = [s \in Slots |-> Idle]
    /\ last = NoExchange

\* os.Setenv(k, v); os.Unsetenv(k) is v = "".
Setenv(k, v) ==
    /\ env[k] # v
    /\ env' = [env EXCEPT ![k] = v]
    /\ UNCHANGED <<inflight, last>>

\* A request arrives and its handler runs until it returns or blocks in the
\* upstream call; a blocked handler occupies a free slot.
Request(route, method, body) ==
    LET h == Handled[route, method, body, env]
    IN  /\ IF h.done
           THEN /\ last' = Immediate(route, method, body, h)
                /\ UNCHANGED inflight
           ELSE /\ \E s \in Slots :
                     /\ inflight[s] = Idle
                     /\ inflight' = [inflight EXCEPT ![s] = Blocked(route, method, h)]
                /\ UNCHANGED last
        /\ UNCHANGED env

\* Mutant: the handlers share one package-level buffer for the call in
\* progress, so the answer to one call may complete another's response.
UpstreamReplyShared(s, status, body) ==
    /\ inflight[s] # Idle
    /\ inflight' = [inflight EXCEPT ![s] = Idle]
    /\ \E t \in Slots :
          /\ inflight[t] # Idle
          /\ last' = Proxied(inflight[t], UpstreamResponse(status, body))
    /\ UNCHANGED env

\* The upstream answers the call of slot s.
UpstreamReply(s, status, body) ==
    /\ inflight[s] # Idle
    /\ inflight' = [inflight EXCEPT ![s] = Idle]
    /\ last' = Proxied(inflight[s], UpstreamResponse(status, body))
    /\ UNCHANGED env

\* Mutant: the client has no Timeout, so a call never returns on its own.
TimeoutNever(s) == FALSE

\* The call of slot s fails in transport: the client's 10 s Timeout elapses
\* with no answer (or the connection fails sooner).
Timeout(s) ==
    /\ inflight[s] # Idle
    /\ inflight' = [inflight EXCEPT ![s] = Idle]
    /\ last' = Proxied(inflight[s], UpstreamError)
    /\ UNCHANGED env

Next ==
    \/ \E k \in EnvKeys : \E v \in EnvValues(k) : Setenv(k, v)
    \/ \E route \in Routes, method \in Methods, body \in RequestBodies :
          Request(route, method, body)
    \/ \E s \in Slots, status \in UpstreamStatuses, body \in UpstreamBodies :
          UpstreamReply(s, status, body)
    \/ \E s \in Slots : Timeout(s)

Spec == Init /\ [][Next]_vars

DeploySpec == InitDeployed /\ [][Next]_vars

\* http.Client{Timeout: 10 * time.Second}: a blocked call returns within the
\* timeout whether or not the upstream answers.
FairSpec == Spec /\ \A s \in Slots : WF_vars(Timeout(s))

-----------------------------------------------------------------------------
(* Properties.  An exchange is read off last: its request (route, method,   *)
(* body), the return of its upstream call (up, when calls = 1) and the      *)
(* response written (w).                                                    *)

ViaUpstream(route) == last.route = route /\ last.calls = 1
Answered(route) == ViaUpstream(route) /\ ~last.up.err

\* The JSON a LoginResponse is written as.
LoginResponseJSON(success, message) ==
    JObj(<<JMember("success", JBool(success)), JMember("message", JStr(message))>>)

\* C1: a POST to /order that the upstream answers with a 4xx business
\* rejection and a body that decodes as a PlaceOrderResponse is answered with
\* that same status and that PlaceOrderResponse as the body.
C1_OrderRejectionPassedThrough ==
    ( /\ Answered("/order")
      /\ last.up.status \in 400..499
      /\ ~DecodePlaceOrderResponse(last.up.body).err )
    => /\ last.w.status = last.up.status
       /\ last.w.body =
            <<EncodePlaceOrderResponse(DecodePlaceOrderResponse(last.up.body).val)>>

C3_BadJSONAnyMethod ==
    (last.route = "/auth" /\ last.body = JInvalid) => last.w.status = 400

\* C3 amended: a POST to /auth whose body is not parsable JSON is answered 400
\* with the plain-text message.
C3_BadJSONPost ==
    (last.route = "/auth" /\ last.method = "POST" /\ last.body = JInvalid)
    => /\ last.w.status = 400
       /\ last.w.body = <<Text("Invalid request body")>>

C3_Witness ==
    /\ last.route = "/auth" /\ last.method = "POST" /\ last.body = JInvalid
    /\ last.w.status = 400

\* C4: a GET to /products that the upstream answers with a status other than
\* 200 is answered 502, never 500, and the message carries the upstream status.
C4_ProductsUpstreamStatus ==
    (Answered("/products") /\ last.method = "GET" /\ last.up.status # 200)
    => /\ last.w.status = 502
       /\ last.w.status # 500
       /\ last.w.body = <<Sprintf("Backend service error: %d", last.up.status)>>

C4_Witness ==
    /\ Answered("/products") /\ last.method = "GET" /\ last.up.status = 500
    /\ last.w.status = 502

\* C5: a GET to /products that the upstream answers 200 is answered 500 when
\* the body does not decode as a []Product, and otherwise 200 with the decoded
\* products encoded again.
C5_ProductsDecode ==
    (Answered("/products") /\ last.method = "GET" /\ last.up.status = 200)
    => IF DecodeProducts(last.up.body).err
       THEN last.w.status = 500
       ELSE /\ last.w.status = 200
            /\ last.w.body = <<EncodeProducts(DecodeProducts(last.up.body).val)>>

\* C5 witnesses: a catalog relayed in re-encoded form (not the upstream's
\* bytes), and an undecodable body answered 500.
C5_Witness ==
    /\ Answered("/products") /\ last.up.status = 200
    /\ last.up.body = CatalogBody
    /\ last.w.status = 200 /\ last.w.body # <<CatalogBody>>

C5_WitnessUndecodable ==
    /\ Answered("/products") /\ last.up.status = 200
    /\ last.up.body = OrderPlacedBody /\ last.w.status = 500

\* The single verb a route accepts, and the CORS headers it answers with.
AcceptedVerb(route) == IF route = "/products" THEN "GET" ELSE "POST"
CORSHeaders(route) ==
    {<<"Access-Control-Allow-Origin", "*">>,
     <<"Access-Control-Allow-Methods",
       IF route = "/products" THEN "GET, OPTIONS" ELSE "POST, OPTIONS">>,
     <<"Access-Control-Allow-Headers", "Content-Type">>}

\* C6: on every route an OPTIONS request is answered 200 with an empty body
\* and the three CORS headers, and its handler decodes no body, compares no
\* credential and calls no upstream.
C6_Preflight ==
    /\ (last.route \in Routes /\ last.method = "OPTIONS")
       => /\ last.w.status = 200
          /\ last.w.body = <<>>
          /\ CORSHeaders(last.route) \subseteq last.w.headers
          /\ ~last.decoded /\ ~last.compared
          /\ last.calls = 0 /\ last.up = NoUpstream
    /\ \A s \in Slots : inflight[s].method # "OPTIONS"

\* C6 witness: a preflight to /order carrying a body that would not decode.
C6_Witness ==
    /\ last.route = "/order" /\ last.method = "OPTIONS" /\ last.body = JInvalid
    /\ last.w.status = 200

\* C7: on every route a request whose method is neither OPTIONS nor the
\* route's accepted verb is answered 405, its body is not decoded and no
\* upstream call is made for it.
C7_MethodNotAllowed ==
    /\ (last.route \in Routes /\ last.method \notin {"OPTIONS", AcceptedVerb(last.route)})
       => /\ last.w.status = 405
          /\ ~last.decoded /\ ~last.compared
          /\ last.calls = 0 /\ last.up = NoUpstream
    /\ \A s \in Slots :
          inflight[s] # Idle => inflight[s].method = AcceptedVerb(inflight[s].route)

C7_Witness ==
    /\ last.route = "/products" /\ last.method = "POST" /\ last.body = OrderBody
    /\ last.w.status = 405

\* The values a handler resolves from environment e.
PasskeyIn(e) == IF e["AUTH_PASSKEY"] = "" THEN "12345" ELSE e["AUTH_PASSKEY"]
BaseURLIn(e) ==
    IF e["DOTNET_PRODUCTS_API_URL"] = "" THEN "http://localhost:8080"
    ELSE e["DOTNET_PRODUCTS_API_URL"]

\* C8 as written: every request is handled with the credential and the base
\* URL that held when the process started, whatever the environment is now.
C8_ConfigFixedAtStartup ==
    /\ last.compared => last.cfg = PasskeyIn(StartupEnv)
    /\ \A s \in Slots :
          inflight[s] # Idle => inflight[s].url.base = BaseURLIn(StartupEnv)

\* C8 amended: a handler resolves the credential and the base URL from the
\* environment as it is when the request is handled, and a change of the
\* environment while the handler is blocked in its upstream call does not
\* change the URL of that call.
C8_ConfigReadPerRequest ==
    [][ /\ (last' # last /\ last'.compared) => last'.cfg = PasskeyIn(env)
        /\ \A s \in Slots :
              /\ (inflight[s] = Idle /\ inflight'[s] # Idle)
                 => inflight'[s].url.base = BaseURLIn(env)
              /\ (inflight[s] # Idle /\ inflight'[s] # Idle)
                 => inflight'[s].url = inflight[s].url ]_vars

\* C8 witness: a call addressed to a base URL set after startup is still
\* pending when the variable has been unset again.
C8_Witness ==
    \E s \in Slots :
        /\ inflight[s] # Idle
        /\ inflight[s].url.base = "http://products:8080"
        /\ env["DOTNET_PRODUCTS_API_URL"] = ""

\* C9: a handler blocked in its upstream call is eventually released, whether
\* or not the upstream answers (no slot stays blocked for ever: each is idle
\* again and again); the release writes exactly one response for that
\* request, and a call that failed in transport (the timeout) is answered 502.
C9_UpstreamCallBounded ==
    /\ \A s \in Slots : []<>(inflight[s] = Idle)
    /\ [][ \A s \in Slots :
              (inflight[s] # Idle /\ inflight'[s] = Idle)
              => /\ last'.route = inflight[s].route
                 /\ last'.calls = 1
                 /\ last'.w.writes = 1 ]_vars
    /\ [](last.calls = 1 => last.w.writes = 1)
    /\ []((last.calls = 1 /\ last.up.err) => last.w.status = 502)

\* C9 witness: a call that ended in the timeout, answered 502.
C9_Witness ==
    /\ ViaUpstream("/order") /\ last.up.err
    /\ last.w.status = 502 /\ last.w.writes = 1

\* The client-visible failure statuses.
FailureStatuses == {400, 405, 500, 502}

\* C10: a failure response of /products or /order does not depend on the
\* body the upstream sent: had the upstream sent any other body with the same
\* status (or failed the same way), a response of the same failure status
\* would have been the same response, headers and body included.
C10_FailureIndependentOfUpstreamBody ==
    (last.route \in {"/products", "/order"} /\ last.w.status \in FailureStatuses)
    => /\ last.calls = 0 => last.up = NoUpstream
       /\ last.calls = 1 =>
            \A c \in BlockedHandlers : \A b \in UpstreamBodies :
                LET other == Resume(c, [last.up EXCEPT !.body = b])
                IN  (c.route = last.route /\ other.status = last.w.status)
                    => other = last.w

\* C10 witness: a 502 for an upstream 409 whose body was a PlaceOrderResponse.
C10_Witness ==
    /\ Answered("/order") /\ last.up.status = 409 /\ last.up.body = OutOfStockBody
    /\ last.w.status = 502

\* The ids of a JSON array of products, in the order of the array.
IsCatalog(body) ==
    /\ body.t = "array"
    /\ \A i \in DOMAIN body.a :
          /\ body.a[i].t = "object"
          /\ HasMember(body.a[i], "id")
          /\ GetMember(body.a[i], "id").t = "string"
ProductIds(body) == [i \in DOMAIN body.a |-> GetMember(body.a[i], "id").s]

\* C11: two GETs to /products that the upstream answers 200 with the same
\* catalog get identical responses.  The response to the first is status 200
\* with the products of the catalog in the catalog's order; a second GET still
\* pending, handled under whatever environment, gets that same response
\* (status, headers, body) if the upstream answers it the same; and when the
\* next exchange completed is such a GET with the same upstream answer, its
\* response is the one before it.
C11_ProductsIdempotent ==
    /\ []( ( /\ Answered("/products") /\ last.up.status = 200
             /\ IsCatalog(last.up.body) /\ ~DecodeProducts(last.up.body).err )
           => /\ last.w.status = 200
              /\ Len(last.w.body) = 1
              /\ IsCatalog(last.w.body[1])
              /\ ProductIds(last.w.body[1]) = ProductIds(last.up.body)
              /\ \A s \in Slots :
                    inflight[s].route = "/products"
                    => Resumed[inflight[s], last.up] = last.w )
    /\ [][ ( /\ Answered("/products") /\ last.up.status = 200
             /\ IsCatalog(last.up.body)
             /\ last'.route = "/products" /\ last'.calls = 1
             /\ last'.up = last.up )
           => last'.w = last.w ]_vars

\* C11 witness: a GET answered 200 with the two products of the catalog, in
\* order, while a second GET, addressed under another environment, is pending.
C11_Witness ==
    /\ Answered("/products") /\ last.up.status = 200
    /\ last.up.body = CatalogBody
    /\ last.w.status = 200
    /\ ProductIds(last.w.body[1]) = <<"prod1", "prod3">>
    /\ \E s \in Slots :
          /\ inflight[s].route = "/products"
          /\ inflight[s].url.base = "http://products:8080"

\* The requests that are answered without the upstream: every /auth request,
\* a preflight, a 405 and a 400.
NoCallClass ==
    \/ last.route = "/auth"
    \/ last.method = "OPTIONS"
    \/ last.w.status \in {400, 405}

\* C12 as written: a request of the classes above causes no upstream call and
\* every other /products or /order request causes exactly one.
C12_OneCallPerRequest ==
    /\ last.calls \in {0, 1}
    /\ NoCallClass => last.calls = 0
    /\ (last.route \in {"/products", "/order"} /\ ~NoCallClass) => last.calls = 1

\* C12 amended: as written, except that under a base URL that cannot be
\* parsed the other /products and /order requests cause no call either
\* (/order is answered 500, /products 502).  A call is made only for the
\* accepted verb, for /order only after the body was decoded, and only to a
\* base URL that parses; when the call returns, the handler is released with
\* that one call made and none started in its place, a transport failure being
\* answered 502.
C12_AtMostOneCall ==
    /\ []( /\ last.calls \in {0, 1}
           /\ NoCallClass => (last.calls = 0 /\ last.up = NoUpstream)
           /\ (last.route \in {"/products", "/order"} /\ ~NoCallClass)
              => \/ last.calls = 1
                 \/ /\ last.calls = 0 /\ last.up = NoUpstream
                    /\ last.w.status = IF last.route = "/order" THEN 500 ELSE 502
           /\ \A s \in Slots :
                 inflight[s] # Idle
                 => /\ inflight[s].method = AcceptedVerb(inflight[s].route)
                    /\ inflight[s].route = "/order" => inflight[s].decoded
                    /\ inflight[s].url.base \notin MalformedBases )
    /\ [][ /\ ( /\ last' # last /\ last'.calls = 0
                /\ last'.route \in {"/products", "/order"}
                /\ last'.method # "OPTIONS" /\ last'.w.status \notin {400, 405} )
              => BaseURLIn(env) \in MalformedBases
           /\ \A s \in Slots :
                 /\ (inflight[s] = Idle /\ inflight'[s] # Idle)
                    => /\ BaseURLIn(env) \notin MalformedBases
                       /\ last' = last
                 /\ (inflight[s] # Idle /\ inflight'[s] # inflight[s])
                    => /\ inflight'[s] = Idle
                       /\ last'.calls = 1 /\ last'.route = inflight[s].route
                       /\ last'.up.err => last'.w.status = 502
                       /\ \A t \in Slots \ {s} : inflight'[t] = inflight[t] ]_vars

\* C12 witness: an order placed under a mistyped base URL was answered 500
\* with no call made, and, the URL set right since, a GET to /products is in
\* its one call.
C12_Witness ==
    /\ last.route = "/order" /\ last.method = "POST" /\ last.body = OrderBody
    /\ last.w.status = 500 /\ last.calls = 0
    /\ \E s \in Slots :
          inflight[s].route = "/products" /\ inflight[s].method = "GET"

\* Whether the upstream's body decodes into the schema the route expects.
DecodesFor(route, body) ==
    IF route = "/products" THEN ~DecodeProducts(body).err
    ELSE ~DecodePlaceOrderResponse(body).err

\* C13: on /products and /order a response 502 is given only for a transport
\* failure or an upstream status outside 2xx, and an upstream answer of any
\* 2xx status whose body does not decode into the expected schema is
\* answered 500.
C13_FailureClassByStatusFamily ==
    (last.route \in {"/products", "/order"} /\ last.calls = 1)
    => /\ last.w.status = 502
          => (last.up.err \/ last.up.status \notin 200..299)
       /\ ( /\ ~last.up.err /\ last.up.status \in 200..299
            /\ ~DecodesFor(last.route, last.up.body) )
          => last.w.status = 500

\* C14: requests are handled independently under any interleaving.  In every
\* step: a handler that returns without a call, or blocks in its call, does
\* what Handle gives for its request and the environment alone, whatever the
\* other handlers are doing; a handler released from its call writes the
\* response that the rest of that handler gives for its own upstream answer,
\* and nothing else; no step of a handler changes the environment or another
\* handler; a change of the environment changes no handler and no response.
C14_HandledIndependently ==
    [][ /\ env' # env => (inflight' = inflight /\ last' = last)
        /\ (last' # last /\ last'.calls = 0)
           => /\ inflight' = inflight /\ env' = env
              /\ last' = Immediate(last'.route, last'.method, last'.body,
                                   Handled[last'.route, last'.method, last'.body, env])
        /\ \A s \in Slots :
              /\ (inflight[s] = Idle /\ inflight'[s] # Idle)
                 => /\ \E body \in RequestBodies :
                          LET h == Handled[inflight'[s].route, inflight'[s].method,
                                           body, env]
                          IN  /\ ~h.done
                              /\ inflight'[s] =
                                   Blocked(inflight'[s].route, inflight'[s].method, h)
                    /\ \A t \in Slots \ {s} : inflight'[t] = inflight[t]
                    /\ last' = last /\ env' = env
              /\ (inflight[s] # Idle /\ inflight'[s] # inflight[s])
                 => /\ inflight'[s] = Idle
                    /\ last'.route = inflight[s].route
                    /\ last'.method = inflight[s].method
                    /\ last'.calls = 1
                    /\ last'.up \in UpstreamReturns
                    /\ last'.w = Resumed[inflight[s], last'.up]
                    /\ \A t \in Slots \ {s} : inflight'[t] = inflight[t]
                    /\ env' = env ]_vars

\* C14 witness: an order was answered from its own upstream answer while a
\* GET to /products, handled concurrently, is still in its call.
C14_Witness ==
    /\ Answered("/order") /\ last.up.status = 200
    /\ last.up.body = OrderPlacedBody /\ last.w.status = 200
    /\ \E s \in Slots : inflight[s].route = "/products"

====
